---- MODULE Spec2Model ----
(***************************************************************************)
(* Model of src/app.py: the module-level load of the population table      *)
(* (read_csv, upper-casing of the state column, national trend) and the    *)
(* two Dash callbacks update_map and update_state_population_trend.        *)
(*                                                                         *)
(* A DataFrame is a sequence of records (row order is significant), a      *)
(* float64 value is a record [kind, num, den]: an exact quotient num/den   *)
(* when kind = "finite", and IEEE inf / -inf / nan otherwise.               *)
(***************************************************************************)
EXTENDS Integers, Sequences, FiniteSets

VARIABLES csv, df, national_trend, phase, result

vars == <<csv, df, national_trend, phase, result>>

(* ------------------------------ bounds -------------------------------- *)
MaxRows == 3
MaxPop == 1

RawStates == {"ny", "NY", "CA"}
Years == {2000, 2001}
Pops == 0..MaxPop
RawRows == [state : RawStates, year : Years, population : Pops]

\* values a client can send to the callbacks
SelectedYears == Years \cup {2002}
SelectedStates == {"NY", "CA", "TX"}
MapTypes == {"total", "growth"}

\* the data set of the documented scenario
ScenarioCsv ==
    << [state |-> "NY", year |-> 2000, population |-> 19000000],
       [state |-> "NY", year |-> 2001, population |-> 19200000],
       [state |-> "CA", year |-> 2000, population |-> 34000000],
       [state |-> "CA", year |-> 2001, population |-> 34500000] >>

CsvSources == (UNION {[1..n -> RawRows] : n \in 0..MaxRows}) \cup {ScenarioCsv}

(* ------------------------- pure helpers ------------------------------- *)
\* str.upper() on the state codes that occur
Upper(s) ==
    CASE s = "ny" -> "NY"
      [] s = "ca" -> "CA"
      [] s = "tx" -> "TX"
      [] OTHER -> s

\* pd.read_csv(..., names=['state','year','population']): one row per line
read_csv(source) ==
    [i \in 1..Len(source) |->
        [state |-> source[i].state, year |-> source[i].year,
         population |-> source[i].population]]

\* df['state'] = df['state'].str.upper()
StrUpperState(table) ==
    [i \in 1..Len(table) |-> [table[i] EXCEPT !.state = Upper(@)]]

RECURSIVE SumPopulation(_)
SumPopulation(table) ==
    IF table = <<>> THEN 0
    ELSE Head(table).population + SumPopulation(Tail(table))

Min(S) == CHOOSE m \in S : \A x \in S : m <= x

RECURSIVE SortedSeq(_)
SortedSeq(S) ==
    IF S = {} THEN <<>>
    ELSE <<Min(S)>> \o SortedSeq(S \ {Min(S)})

YearsOf(table) == {table[i].year : i \in 1..Len(table)}

\* mutant: an absent year falls back to the whole table
FilterYearFallback(table, y) ==
    IF \E i \in 1..Len(table) : table[i].year = y
    THEN SelectSeq(table, LAMBDA r : r.year = y)
    ELSE table

\* df[df['year'] == y]
FilterYear(table, y) == SelectSeq(table, LAMBDA r : r.year = y)

\* df[df['state'] == s]
FilterState(table, s) == SelectSeq(table, LAMBDA r : r.state = s)

\* mutant: the sum is not restricted to the group's year
GroupByYearSumAll(table) ==
    LET ys == SortedSeq(YearsOf(table))
    IN [i \in 1..Len(ys) |->
          [year |-> ys[i], population |-> SumPopulation(table)]]

\* df.groupby('year')['population'].sum().reset_index()
GroupByYearSum(table) ==
    LET ys == SortedSeq(YearsOf(table))
    IN [i \in 1..Len(ys) |->
          [year |-> ys[i], population |-> SumPopulation(FilterYear(table, ys[i]))]]

\* float64 true division of two integers (numpy: x/0 is inf, -inf or nan)
FloatDiv(a, b) ==
    IF b # 0 THEN [kind |-> "finite", num |-> a, den |-> b]
    ELSE IF a > 0 THEN [kind |-> "inf", num |-> 1, den |-> 0]
    ELSE IF a < 0 THEN [kind |-> "-inf", num |-> -1, den |-> 0]
    ELSE [kind |-> "nan", num |-> 0, den |-> 0]

FloatMul100(v) ==
    IF v.kind = "finite" THEN [v EXCEPT !.num = @ * 100] ELSE v

\* mutant: divides by the current instead of the previous population
GrowthRateOverCurrent(current, previous) ==
    FloatMul100(FloatDiv(current - previous, current))

\* (current - previous) / previous * 100
GrowthRate(current, previous) ==
    FloatMul100(FloatDiv(current - previous, previous))

\* rows that one left row contributes to an inner merge on 'state'
MergeRow(l, matches) ==
    [j \in 1..Len(matches) |->
        [state |-> l.state, year |-> l.year,
         population_current |-> l.population,
         population_previous |-> matches[j].population]]

\* mutant: how = 'left' with the missing baseline filled with 0
RECURSIVE MergeLeftZeroFill(_, _)
MergeLeftZeroFill(left, right) ==
    IF left = <<>> THEN <<>>
    ELSE LET matches == FilterState(right, Head(left).state)
         IN (IF matches = <<>>
             THEN <<[state |-> Head(left).state, year |-> Head(left).year,
                     population_current |-> Head(left).population,
                     population_previous |-> 0]>>
             ELSE MergeRow(Head(left), matches))
            \o MergeLeftZeroFill(Tail(left), right)

\* left.merge(right[['state','population']], on='state',
\*            suffixes=('_current','_previous'))   (how = 'inner')
RECURSIVE Merge(_, _)
Merge(left, right) ==
    IF left = <<>> THEN <<>>
    ELSE MergeRow(Head(left), FilterState(right, Head(left).state))
           \o Merge(Tail(left), right)

\* filtered_data['growth_rate'] = ...
WithGrowthRate(merged) ==
    [i \in 1..Len(merged) |->
        [state |-> merged[i].state, year |-> merged[i].year,
         population_current |-> merged[i].population_current,
         population_previous |-> merged[i].population_previous,
         growth_rate |-> GrowthRate(merged[i].population_current,
                                    merged[i].population_previous)]]

NoResult == [output |-> "none", kind |-> "none"]

(* ------------------------------ actions -------------------------------- *)
Init ==
    /\ csv \in CsvSources
    /\ df = <<>>
    /\ national_trend = <<>>
    /\ phase = "start"
    /\ result = NoResult

\* line 10
LoadData ==
    /\ phase = "start"
    /\ df' = read_csv(csv)
    /\ phase' = "read"
    /\ UNCHANGED <<csv, national_trend, result>>

\* line 13
Preprocess ==
    /\ phase = "read"
    /\ df' = StrUpperState(df)
    /\ phase' = "preprocessed"
    /\ UNCHANGED <<csv, national_trend, result>>

\* line 16
ComputeNationalTrend ==
    /\ phase = "preprocessed"
    /\ national_trend' = GroupByYearSum(df)
    /\ phase' = "serving"
    /\ UNCHANGED <<csv, df, result>>

\* the figure data built by update_map
MapFigure(table, selected_year, map_type) ==
    LET filtered_data == FilterYear(table, selected_year)
    IN IF map_type = "growth"
       THEN LET prev_year_data == FilterYear(table, selected_year - 1)
            IN [output |-> "state-population-map",
                kind |-> "map", year |-> selected_year, metric |-> map_type,
                color_column |-> "growth_rate",
                title |-> <<"Population Growth Rate", selected_year - 1, "to", selected_year>>,
                rows |-> WithGrowthRate(Merge(filtered_data, prev_year_data))]
       ELSE [output |-> "state-population-map",
             kind |-> "map", year |-> selected_year, metric |-> map_type,
             color_column |-> "population",
             title |-> <<"Total Population in", selected_year>>,
             rows |-> filtered_data]

\* mutant: the year filter is applied to the global table in place
update_map_inplace(selected_year, map_type) ==
    /\ phase = "serving"
    /\ result' = MapFigure(df, selected_year, map_type)
    /\ df' = FilterYear(df, selected_year)
    /\ UNCHANGED <<csv, national_trend, phase>>

update_map(selected_year, map_type) ==
    /\ phase = "serving"
    /\ result' = MapFigure(df, selected_year, map_type)
    /\ UNCHANGED <<csv, df, national_trend, phase>>

\* the figure data built by update_state_population_trend; .iloc[0] on an
\* empty selection raises IndexError
TrendFigure(table, trend, selected_state) ==
    LET state_data == FilterState(table, selected_state)
    IN IF state_data = <<>>
       THEN [output |-> "state-population-trend-graph", kind |-> "error",
             exception |-> "IndexError", state |-> selected_state]
       ELSE LET first_pop == state_data[1].population
                last_pop == state_data[Len(state_data)].population
            IN [output |-> "state-population-trend-graph",
                kind |-> "trend", state |-> selected_state,
                x |-> [i \in 1..Len(state_data) |-> state_data[i].year],
                y |-> [i \in 1..Len(state_data) |-> state_data[i].population],
                national_x |-> [i \in 1..Len(trend) |-> trend[i].year],
                national_y |-> [i \in 1..Len(trend) |-> trend[i].population],
                total_growth |-> FloatMul100(FloatDiv(last_pop - first_pop, first_pop)),
                annotation |-> [x |-> state_data[Len(state_data)].year,
                                y |-> last_pop]]

update_state_population_trend(selected_state) ==
    /\ phase = "serving"
    /\ result' = TrendFigure(df, national_trend, selected_state)
    /\ UNCHANGED <<csv, df, national_trend, phase>>

Next ==
    \/ LoadData
    \/ Preprocess
    \/ ComputeNationalTrend
    \/ \E y \in SelectedYears, t \in MapTypes : update_map(y, t)
    \/ \E s \in SelectedStates : update_state_population_trend(s)

Spec == Init /\ [][Next]_vars

(* --------------------------- properties -------------------------------- *)
Indices(table) == 1..Len(table)

HasRecord(table, s, y) ==
    \E i \in Indices(table) : table[i].state = s /\ table[i].year = y

\* at most one record per (state, year)
Unique(table) ==
    \A i, j \in Indices(table) :
        (table[i].state = table[j].state /\ table[i].year = table[j].year) => i = j

RECURSIVE SumOver(_, _)
SumOver(table, I) ==
    IF I = {} THEN 0
    ELSE LET i == CHOOSE k \in I : TRUE
         IN table[i].population + SumOver(table, I \ {i})

Abs(n) == IF n < 0 THEN -n ELSE n

RECURSIVE GCD(_, _)
GCD(a, b) == IF b = 0 THEN a ELSE GCD(b, a % b)

\* the float value v is the quotient a / b (b > 0), compared in lowest terms
IsQuotient(v, a, b) ==
    /\ v.kind = "finite"
    /\ v.den > 0
    /\ LET g == GCD(Abs(v.num), v.den)
           h == GCD(Abs(a), b)
       IN v.num \div g = a \div h /\ v.den \div g = b \div h

\* v rounds to t / 10000 (for populations that are multiples of 1000)
RoundsTo(v, t) ==
    LET n == v.num \div 1000
        d == v.den \div 1000
    IN /\ v.kind = "finite"
       /\ (2 * t - 1) * d <= 2 * n * 10000
       /\ 2 * n * 10000 < (2 * t + 1) * d

IsGrowthMap == result.kind = "map" /\ result.metric = "growth"

\* C1: once loaded, national_trend has, for every year of the table, exactly
\* one entry and it is the sum of population over the records of that year,
\* and it has no entry for a year that does not occur in the table.
C1_NationalTrendIsYearSum ==
    phase = "serving" =>
        /\ \A y \in YearsOf(df) :
              /\ Cardinality({i \in Indices(national_trend) :
                                national_trend[i].year = y}) = 1
              /\ \A i \in Indices(national_trend) :
                    national_trend[i].year = y =>
                        national_trend[i].population =
                            SumOver(df, {k \in Indices(df) : df[k].year = y})
        /\ \A i \in Indices(national_trend) : national_trend[i].year \in YearsOf(df)

C1_Witness ==
    /\ phase = "serving"
    /\ result.kind \in {"map", "trend"}
    /\ Cardinality(YearsOf(df)) >= 2
    /\ \E i, j \in Indices(df) :
          i # j /\ df[i].year = df[j].year /\ df[i].population > 0 /\ df[j].population > 0

\* C2: every state that update_map(Y, 'growth') gives a growth rate has a
\* record in year Y and a record in year Y-1, and its baseline is the
\* population of such a Y-1 record (no synthetic zero baseline).
C2_GrowthOnlyWithBaseline ==
    IsGrowthMap =>
        \A i \in Indices(result.rows) :
            /\ HasRecord(df, result.rows[i].state, result.year)
            /\ \E j \in Indices(df) :
                  /\ df[j].state = result.rows[i].state
                  /\ df[j].year = result.year - 1
                  /\ df[j].population = result.rows[i].population_previous

C2_Witness ==
    /\ IsGrowthMap
    /\ result.rows # <<>>
    /\ \E i \in Indices(df) :
          df[i].year = result.year /\ ~HasRecord(df, df[i].state, result.year - 1)

\* C3: on a table with at most one record per (state, year), a state with a
\* record in Y and in Y-1 and a positive Y-1 population gets exactly one
\* growth value, equal to (pop[Y] - pop[Y-1]) / pop[Y-1] * 100; on the
\* scenario data set NY gets about 1.0526 and CA about 1.4706.
C3_GrowthRateValue ==
    (IsGrowthMap /\ Unique(df)) =>
        /\ \A c, p \in Indices(df) :
              (/\ df[c].state = df[p].state
               /\ df[c].year = result.year
               /\ df[p].year = result.year - 1
               /\ df[p].population > 0)
              => /\ Cardinality({i \in Indices(result.rows) :
                                   result.rows[i].state = df[c].state}) = 1
                 /\ \A i \in Indices(result.rows) :
                       result.rows[i].state = df[c].state =>
                           IsQuotient(result.rows[i].growth_rate,
                                      (df[c].population - df[p].population) * 100,
                                      df[p].population)
        /\ (csv = ScenarioCsv /\ result.year = 2001) =>
              /\ Len(result.rows) = 2
              /\ \A i \in Indices(result.rows) :
                    /\ result.rows[i].state = "NY" =>
                          RoundsTo(result.rows[i].growth_rate, 10526)
                    /\ result.rows[i].state = "CA" =>
                          RoundsTo(result.rows[i].growth_rate, 14706)

C3_Witness ==
    /\ IsGrowthMap
    /\ Unique(df)
    /\ csv # ScenarioCsv
    /\ \E i \in Indices(result.rows) :
          /\ result.rows[i].population_previous > 0
          /\ result.rows[i].population_current # result.rows[i].population_previous

\* C4: the growth result of update_map(Y, 'growth') holds no state whose
\* Y-1 population is 0 and no infinite or NaN growth value.
C4_NoZeroBaselineInResult ==
    IsGrowthMap =>
        \A i \in Indices(result.rows) :
            /\ result.rows[i].population_previous # 0
            /\ result.rows[i].growth_rate.kind = "finite"

\* C5: update_state_population_trend never ends in an error, whatever state
\* is selected.
C5_TrendNeverErrors ==
    result.output = "state-population-trend-graph" => result.kind = "trend"

\* C6: the output of update_map is a map view model, never an error, and the per-state values
\* are empty when the selected year has no record, and for 'growth' also
\* when the year before it has no record.
C6_AbsentYearGivesEmptyMap ==
    result.output = "state-population-map" =>
        /\ result.kind = "map"
        /\ result.year \notin YearsOf(df) => result.rows = <<>>
        /\ (result.metric = "growth" /\ (result.year - 1) \notin YearsOf(df))
              => result.rows = <<>>

C6_Witness ==
    /\ IsGrowthMap
    /\ result.year \in YearsOf(df)
    /\ (result.year - 1) \notin YearsOf(df)
    /\ result.rows = <<>>

\* C7: the state series plotted by update_state_population_trend has its
\* years in strictly ascending order (sorted, no year twice); stated here for
\* tables that already hold one record per (state, year), so that only the
\* order of the rows is in question.
C7_SeriesAscendingNoDuplicates ==
    (result.kind = "trend" /\ Unique(df)) =>
        \A i, j \in Indices(result.x) : i < j => result.x[i] < result.x[j]

\* C8: for a state whose earliest-year population is nonzero, the annotation
\* sits at the state's greatest year with that year's population, and total
\* growth is (last - first) / first * 100 over the earliest and latest year;
\* stated here for tables that hold one record per (state, year).
C8_AnnotationAndTotalGrowth ==
    (result.kind = "trend" /\ Unique(df)) =>
        LET I == {i \in Indices(df) : df[i].state = result.state}
            F == {i \in I : \A k \in I : df[i].year <= df[k].year}
            L == {i \in I : \A k \in I : df[i].year >= df[k].year}
        IN (\E f \in F : df[f].population # 0) =>
              \E f \in F, l \in L :
                  /\ df[f].population # 0
                  /\ result.annotation.x = df[l].year
                  /\ result.annotation.y = df[l].population
                  /\ IsQuotient(result.total_growth,
                                (df[l].population - df[f].population) * 100,
                                df[f].population)

\* C9: once loaded, no step changes the population table or the national
\* trend.
C9_TableAndTrendNeverChange ==
    [][phase = "serving" => (df' = df /\ national_trend' = national_trend)]_vars

C9_Witness ==
    /\ IsGrowthMap
    /\ result.rows # <<>>
    /\ Len(df) > Len(result.rows)
    /\ df = StrUpperState(read_csv(csv))
    /\ national_trend = GroupByYearSum(df)

\* C10: the loaded table has every state code in uppercase and at most one
\* record per (state, year) pair.
C10_LoadedTableUpperAndUnique ==
    phase = "serving" =>
        /\ \A i \in Indices(df) : df[i].state = Upper(df[i].state)
        /\ Unique(df)

====
